---- MODULE Spec2Model ----
(***************************************************************************)
(* Model of the grouping-and-summarising core of Stats_Import:             *)
(* Data_Analyzer (src/get_data.py) run by Director.main.                   *)
(*                                                                         *)
(* A record (a Python dict) is a function from attribute names to values.  *)
(* Dimension values are strings (member names, reference periods).  A      *)
(* measurement value (Data_Value, Scaled Value) is a pair <<n, d>>: the    *)
(* exact rational n/d in lowest terms with d > 0, or NoneVal for Python's  *)
(* None.  statistics.mean sums its arguments exactly; where Python rounds  *)
(* the quotient to the nearest double the model keeps the exact quotient.  *)
(*                                                                         *)
(* A group (a Python list of dicts) holds references, not copies: a        *)
(* positive reference i is the input dict data_dicts[i], a negative        *)
(* reference -g is the summary dict made when group g was created.         *)
(***************************************************************************)
EXTENDS Integers, Sequences, FiniteSets, TLC

VARIABLES
    exclude_list,           \* Data_Analyzer.exclude_list
    data_dicts,             \* the list handed to group_and_summarize_data
    input_dicts,            \* the same list as it was before the pass
    summaries,              \* summary dicts, one per created group
    list_of_grouped_dicts,  \* the registry: a list of lists of references
    group_keys,             \* differing_key given to create_summary_dict, per group
    i, j,                   \* positions of the outer and the inner loop
    pc,                     \* "loop", "done" (returned) or "raised"
    error,                  \* the exception that ended the pass, or "none"
    last,                   \* what the last loop iteration did
    prev_dicts,             \* data_dicts before the last loop iteration
    prev_groups,            \* the registry before the last loop iteration
    prev_summaries,         \* the summaries before the last loop iteration
    cmp_a, cmp_b,           \* operands of a stand-alone comparison
    cmp_ab, cmp_ba,         \* its result in both argument orders
    shared_keys,            \* prep_data_for_export: the keys common so far
    shared_keys_values,     \* prep_data_for_export: key -> set of values
    product_id_to_sheet,    \* prep_data_for_export: ProductId -> list of dicts
    product_id_to_title,    \* prep_data_for_export: ProductId -> Title
    dfs,                    \* prep_data_for_export: sheet name -> list of rows
    metadata_cache,         \* Data_Assembler.metadata_cache
    api_calls,              \* the productIds given to api.fetch_metadata, in order
    requested,              \* the arguments of the calls of get_metadata, in order
    returned,               \* the value the last get_metadata returned
    run,                    \* 1 in the first call of group_and_summarize_data, 2 in the second
    first_result            \* what the first call returned or raised

exportVars == <<shared_keys, shared_keys_values, product_id_to_sheet, product_id_to_title,
                dfs>>

metaVars == <<metadata_cache, api_calls, requested, returned>>

rerunVars == <<run, first_result>>

vars == <<exclude_list, data_dicts, input_dicts, summaries,
          list_of_grouped_dicts, group_keys, i, j, pc, error, last,
          prev_dicts, prev_groups, prev_summaries, cmp_a, cmp_b, cmp_ab, cmp_ba,
          exportVars, metaVars, rerunVars>>

(***************************************************************************)
(* Bounds of the model.                                                    *)
(***************************************************************************)
MaxLen == 4

\* the number of calls of get_metadata in a run
MaxCalls == 4

(***************************************************************************)
(* Values.                                                                 *)
(***************************************************************************)
Sentinel == "Mean (Average)"

NoneVal == <<0, 0>>

\* the sentinel string when it is stored in a measurement field
SentinelVal == <<1, 0>>

None == "None"

KeyError == "KeyError"

TypeError == "TypeError"

ValueError == "ValueError"

IndexError == "IndexError"

\* Director.main, excluded_columns
ExcludedColumns == {"VectorId", "Value", "Data_Value", "Scaled Value"}

\* the order in which data_to_dict inserts the keys of a dict
AttrOrder == <<"ProductId", "Title", "Year", "Geo", "Data_Value", "Scaled Value">>

MeasureAttrs == {"Data_Value", "Scaled Value"}

\* the sentinel as the value of a key
SentinelAt(key) == IF key \in MeasureAttrs THEN SentinelVal ELSE Sentinel

RECURSIVE GCD(_, _)
GCD(a, b) == IF b = 0 THEN a ELSE GCD(b, a % b)

Abs(n) == IF n < 0 THEN -n ELSE n

\* the rational n/d in lowest terms (d > 0)
Rat(n, d) == LET g == GCD(Abs(n), d) IN <<n \div g, d \div g>>

\* the sum over the least common denominator
RatAdd(x, y) ==
    LET g == GCD(x[2], y[2])
    IN Rat(x[1] * (y[2] \div g) + y[1] * (x[2] \div g), x[2] * (y[2] \div g))

RECURSIVE RatSum(_)
RatSum(vs) == IF vs = <<>> THEN <<0, 1>> ELSE RatAdd(Head(vs), RatSum(Tail(vs)))

\* statistics.mean raises TypeError when one of its arguments is None or a string
mean_raises(vs) == \E n \in 1..Len(vs) : vs[n] \in {NoneVal, SentinelVal}

\* statistics.mean of a non-empty list of numbers
mean(vs) == LET s == RatSum(vs) IN Rat(s[1], s[2] * Len(vs))

IsError(x) == x \in {KeyError, TypeError, ValueError}

KeySeq(d) == SelectSeq(AttrOrder, LAMBDA k : k \in DOMAIN d)

(***************************************************************************)
(* Data_Analyzer.compare_data_point.  The result is the differing key,     *)
(* None, or KeyError when data_point lacks a key of comparison_data_point  *)
(* that the loop reaches.                                                  *)
(***************************************************************************)
\* compare_loop, had it passed over the keys at which comparison_data_point
\* holds the sentinel
RECURSIVE compare_loop_skip_sentinel(_, _, _, _, _, _)
compare_loop_skip_sentinel(data_point, comparison_data_point, E, keys, diff, differing_key) ==
    IF keys = <<>>
    THEN IF diff = 1 THEN differing_key ELSE None
    ELSE LET key == Head(keys) IN
         IF key \in E \/ comparison_data_point[key] = SentinelAt(key)
         THEN compare_loop_skip_sentinel(data_point, comparison_data_point, E, Tail(keys),
                                         diff, differing_key)
         ELSE IF key \notin DOMAIN data_point
         THEN KeyError
         ELSE IF data_point[key] # comparison_data_point[key]
         THEN IF diff + 1 > 1
              THEN None
              ELSE compare_loop_skip_sentinel(data_point, comparison_data_point, E,
                                              Tail(keys), diff + 1, key)
         ELSE compare_loop_skip_sentinel(data_point, comparison_data_point, E, Tail(keys),
                                         diff, differing_key)

\* compare_loop, had it returned the key of the second difference
RECURSIVE compare_loop_second_key(_, _, _, _, _, _)
compare_loop_second_key(data_point, comparison_data_point, E, keys, diff, differing_key) ==
    IF keys = <<>>
    THEN IF diff = 1 THEN differing_key ELSE None
    ELSE LET key == Head(keys) IN
         IF key \in E
         THEN compare_loop_second_key(data_point, comparison_data_point, E, Tail(keys),
                                      diff, differing_key)
         ELSE IF key \notin DOMAIN data_point
         THEN KeyError
         ELSE IF data_point[key] # comparison_data_point[key]
         THEN IF diff + 1 > 1
              THEN key
              ELSE compare_loop_second_key(data_point, comparison_data_point, E,
                                           Tail(keys), diff + 1, key)
         ELSE compare_loop_second_key(data_point, comparison_data_point, E, Tail(keys),
                                      diff, differing_key)

RECURSIVE compare_loop(_, _, _, _, _, _)
compare_loop(data_point, comparison_data_point, E, keys, diff, differing_key) ==
    IF keys = <<>>
    THEN IF diff = 1 THEN differing_key ELSE None
    ELSE LET key == Head(keys) IN
         IF key \in E
         THEN compare_loop(data_point, comparison_data_point, E, Tail(keys), diff, differing_key)
         ELSE IF key \notin DOMAIN data_point
         THEN KeyError
         ELSE IF data_point[key] # comparison_data_point[key]
         THEN IF diff + 1 > 1
              THEN None
              ELSE compare_loop(data_point, comparison_data_point, E, Tail(keys), diff + 1, key)
         ELSE compare_loop(data_point, comparison_data_point, E, Tail(keys), diff, differing_key)

\* compare_data_point, had it counted the excluded keys too
compare_data_point_no_exclusion(data_point, comparison_data_point, E) ==
    IF data_point = comparison_data_point
    THEN None
    ELSE compare_loop(data_point, comparison_data_point, {},
                      KeySeq(comparison_data_point), 0, None)

compare_data_point(data_point, comparison_data_point, E) ==
    IF data_point = comparison_data_point
    THEN None
    ELSE compare_loop(data_point, comparison_data_point, E,
                      KeySeq(comparison_data_point), 0, None)

(***************************************************************************)
(* References and groups.                                                  *)
(***************************************************************************)
Deref(dd, sm, r) == IF r > 0 THEN dd[r] ELSE sm[-r]

\* the dicts of a group, in list order
Members(dd, sm, group) == [m \in 1..Len(group) |-> Deref(dd, sm, group[m])]

\* Python's "d in group": equality with some element
InGroup(dd, sm, d, group) == \E m \in 1..Len(group) : Deref(dd, sm, group[m]) = d

\* 'Mean (Average)' in d.values()
HasSentinel(d) == \E key \in DOMAIN d : d[key] = SentinelAt(key)

\* Data_Analyzer.get_summary_dict: the position of the first dict holding
\* the sentinel, 0 when there is none (the ValueError)
get_summary_dict(dd, sm, group) ==
    LET hits == {m \in 1..Len(group) : HasSentinel(Deref(dd, sm, group[m]))}
    IN IF hits = {} THEN 0 ELSE CHOOSE m \in hits : \A n \in hits : m <= n

ColumnOf(ms, key) == [m \in 1..Len(ms) |-> ms[m][key]]

\* update_summary_dict without the test of line 403
update_summary_dict_no_none_test(summary_dict, ms) ==
    IF mean_raises(ColumnOf(ms, "Data_Value"))
    THEN [dict |-> summary_dict, error |-> TypeError]
    ELSE [dict |-> [summary_dict EXCEPT !["Data_Value"] = mean(ColumnOf(ms, "Data_Value"))],
          error |-> "none"]

(***************************************************************************)
(* Data_Analyzer.update_summary_dict on the dict summary_dict and the      *)
(* dicts ms of the group.  Gives the dict as the function leaves it and    *)
(* the exception raised, if any: Data_Value is written before the scaled   *)
(* values are read.                                                        *)
(***************************************************************************)
update_summary_dict(summary_dict, ms) ==
    LET data_values == ColumnOf(ms, "Data_Value")
        skip == summary_dict["Data_Value"] = NoneVal
        first == IF skip THEN summary_dict
                 ELSE [summary_dict EXCEPT !["Data_Value"] = mean(data_values)]
    IN IF ~skip /\ mean_raises(data_values)
       THEN [dict |-> summary_dict, error |-> TypeError]
       ELSE IF "Scaled Value" \in DOMAIN ms[1]
       THEN IF \E m \in 1..Len(ms) : "Scaled Value" \notin DOMAIN ms[m]
            THEN [dict |-> first, error |-> KeyError]
            ELSE IF mean_raises(ColumnOf(ms, "Scaled Value"))
            THEN [dict |-> first, error |-> TypeError]
            ELSE IF "Scaled Value" \in DOMAIN first
            THEN [dict |-> [first EXCEPT !["Scaled Value"] = mean(ColumnOf(ms, "Scaled Value"))],
                  error |-> "none"]
            ELSE [dict |-> [key \in DOMAIN first \cup {"Scaled Value"} |->
                               IF key = "Scaled Value"
                               THEN mean(ColumnOf(ms, "Scaled Value"))
                               ELSE first[key]],
                  error |-> "none"]
       ELSE [dict |-> first, error |-> "none"]

\* Data_Analyzer.create_summary_dict on the dicts ms of the new group
create_summary_dict(ms, differing_key) ==
    update_summary_dict([ms[1] EXCEPT ![differing_key] = SentinelAt(differing_key)], ms)

\* writing dict d through reference r
StoreData(dd, r, d) == IF r > 0 THEN [dd EXCEPT ![r] = d] ELSE dd

StoreSummary(sm, r, d) == IF r > 0 THEN sm ELSE [sm EXCEPT ![-r] = d]

(***************************************************************************)
(* Data_Analyzer.add_points_to_groups, lines 348-365: the scan of the      *)
(* registry from group g on.                                               *)
(***************************************************************************)
\* line 350: any(dp in grouped_data for dp in [data_point, comparison_data_point])
any_in_group(dd, sm, group, p, q) ==
    InGroup(dd, sm, dd[p], group) \/ InGroup(dd, sm, dd[q], group)

\* line 352: all(compare_data_point(dp, comparison_data_point) == differing_key
\* for dp in grouped_data), evaluated left to right from member m on:
\* "true", "false", or KeyError when a comparison raises
\* line 352, had it left out the members equal to comparison_data_point
RECURSIVE all_differ_skip_self(_, _, _, _, _, _)
all_differ_skip_self(ms, comparison_data_point, differing_key, E, m, n) ==
    IF m > n THEN "true"
    ELSE IF ms[m] = comparison_data_point
    THEN all_differ_skip_self(ms, comparison_data_point, differing_key, E, m + 1, n)
    ELSE LET r == compare_data_point(ms[m], comparison_data_point, E) IN
         IF r = KeyError THEN KeyError
         ELSE IF r # differing_key THEN "false"
         ELSE all_differ_skip_self(ms, comparison_data_point, differing_key, E, m + 1, n)

\* line 352 with the all() left out: any group holding one of the points accepts
all_differ_unchecked(ms, comparison_data_point, differing_key, E, m, n) == "true"

RECURSIVE all_differ_by_key(_, _, _, _, _, _)
all_differ_by_key(ms, comparison_data_point, differing_key, E, m, n) ==
    IF m > n THEN "true"
    ELSE LET r == compare_data_point(ms[m], comparison_data_point, E) IN
         IF r = KeyError THEN KeyError
         ELSE IF r # differing_key THEN "false"
         ELSE all_differ_by_key(ms, comparison_data_point, differing_key, E, m + 1, n)

\* lines 354-357: the group with the missing points appended
append_missing(dd, sm, group, p, q) ==
    LET with_p == IF InGroup(dd, sm, dd[p], group) THEN group ELSE Append(group, p)
    IN IF InGroup(dd, sm, dd[q], with_p) THEN with_p ELSE Append(with_p, q)

\* lines 354-365 on group g: extend it, then find and update its summary
extend_group(groups, dd, sm, keys, g, p, q) ==
    LET grouped_data == append_missing(dd, sm, groups[g], p, q)
        at == get_summary_dict(dd, sm, grouped_data)
        new_groups == [groups EXCEPT ![g] = grouped_data]
    IN IF at = 0
       THEN [groups |-> new_groups, data |-> dd, summaries |-> sm, keys |-> keys,
             error |-> ValueError, extended |-> g, created |-> FALSE]
       ELSE LET upd == update_summary_dict(Deref(dd, sm, grouped_data[at]),
                                           Members(dd, sm, grouped_data))
            IN [groups |-> new_groups,
                data |-> StoreData(dd, grouped_data[at], upd.dict),
                summaries |-> StoreSummary(sm, grouped_data[at], upd.dict),
                keys |-> keys, error |-> upd.error,
                extended |-> g, created |-> FALSE]

\* lines 367-373: no match found, a new group of the two points
create_group(groups, dd, sm, keys, p, q, differing_key) ==
    LET made == create_summary_dict(<<dd[p], dd[q]>>, differing_key)
    IN IF made.error # "none"
       THEN [groups |-> groups, data |-> dd, summaries |-> sm, keys |-> keys,
             error |-> made.error, extended |-> 0, created |-> FALSE]
       ELSE [groups |-> Append(groups, <<p, q, -(Len(sm) + 1)>>),
             data |-> dd, summaries |-> Append(sm, made.dict),
             keys |-> Append(keys, differing_key),
             error |-> "none", extended |-> 0, created |-> TRUE]

\* the scan, had line 365 not left the loop: every accepting group is extended
RECURSIVE scan_on(_, _, _, _, _, _, _, _, _, _)
scan_on(groups, dd, sm, keys, p, q, differing_key, E, g, found) ==
    IF g > Len(groups)
    THEN IF found = 0
         THEN create_group(groups, dd, sm, keys, p, q, differing_key)
         ELSE [groups |-> groups, data |-> dd, summaries |-> sm, keys |-> keys,
               error |-> "none", extended |-> found, created |-> FALSE]
    ELSE IF /\ any_in_group(dd, sm, groups[g], p, q)
            /\ all_differ_by_key(Members(dd, sm, groups[g]), dd[q],
                                 differing_key, E, 1, Len(groups[g])) = "true"
    THEN LET ext == extend_group(groups, dd, sm, keys, g, p, q)
         IN IF ext.error # "none" THEN ext
            ELSE scan_on(ext.groups, ext.data, ext.summaries, keys,
                         p, q, differing_key, E, g + 1, g)
    ELSE scan_on(groups, dd, sm, keys, p, q, differing_key, E, g + 1, found)

scan_groups_no_break(groups, dd, sm, keys, p, q, differing_key, E, g) ==
    scan_on(groups, dd, sm, keys, p, q, differing_key, E, g, 0)

RECURSIVE scan_groups(_, _, _, _, _, _, _, _, _)
scan_groups(groups, dd, sm, keys, p, q, differing_key, E, g) ==
    IF g > Len(groups)
    THEN create_group(groups, dd, sm, keys, p, q, differing_key)
    ELSE IF any_in_group(dd, sm, groups[g], p, q)
    THEN LET ok == all_differ_by_key(Members(dd, sm, groups[g]), dd[q],
                                     differing_key, E, 1, Len(groups[g]))
         IN IF ok = KeyError
            THEN [groups |-> groups, data |-> dd, summaries |-> sm, keys |-> keys,
                  error |-> KeyError, extended |-> 0, created |-> FALSE]
            ELSE IF ok = "true"
            THEN extend_group(groups, dd, sm, keys, g, p, q)
            ELSE scan_groups(groups, dd, sm, keys, p, q, differing_key, E, g + 1)
    ELSE scan_groups(groups, dd, sm, keys, p, q, differing_key, E, g + 1)

add_points_to_groups(groups, dd, sm, keys, p, q, differing_key, E) ==
    scan_groups(groups, dd, sm, keys, p, q, differing_key, E, 1)

(***************************************************************************)
(* Inputs.                                                                 *)
(***************************************************************************)
Years == {"2020", "2021", "2022"}

DataValues == {<<10, 1>>, <<20, 1>>, <<30, 1>>}

YearValue == [y \in Years |-> IF y = "2020" THEN <<10, 1>>
                              ELSE IF y = "2021" THEN <<20, 1>> ELSE <<30, 1>>]

Rec(y, g, v) == [Year |-> y, Geo |-> g, Data_Value |-> v]

\* records of one schema, as data_to_dict builds them: region "A" in every
\* year, 2020 in region "A" with every value, region "B" in two years
Universe ==
    {Rec(y, "A", YearValue[y]) : y \in Years}
    \cup {Rec("2020", "A", v) : v \in DataValues}
    \cup {Rec(y, "B", <<10, 1>>) : y \in {"2020", "2021"}}

SeqsUpTo(S, n) == UNION {[1..m -> S] : m \in 0..n}

\* prep_data_for_export has not run
NoExport ==
    /\ shared_keys = {}
    /\ shared_keys_values = <<>>
    /\ product_id_to_sheet = <<>>
    /\ product_id_to_title = <<>>
    /\ dfs = <<>>

\* no metadata asked for
Unset == [productId |-> "unset"]

\* Data_Assembler.__init__ (line 173), before any get_metadata
NoMetadataCall ==
    /\ metadata_cache = <<>>
    /\ api_calls = <<>>
    /\ requested = <<>>
    /\ returned = Unset

\* the first call of group_and_summarize_data, nothing returned yet
NoRerun ==
    /\ run = 1
    /\ first_result = [groups |-> <<>>, error |-> "unset"]

NoStep == [p |-> 0, q |-> 0, key |-> "none", extended |-> 0, created |-> FALSE]

InitPass(U, E) ==
    /\ exclude_list = E
    /\ data_dicts \in SeqsUpTo(U, MaxLen)
    /\ input_dicts = data_dicts
    /\ summaries = <<>>
    /\ list_of_grouped_dicts = <<>>
    /\ group_keys = <<>>
    /\ i = 1
    /\ j = 1
    /\ pc = "loop"
    /\ error = "none"
    /\ last = NoStep
    /\ prev_dicts = data_dicts
    /\ prev_groups = <<>>
    /\ prev_summaries = <<>>
    /\ cmp_a = <<>>
    /\ cmp_b = <<>>
    /\ cmp_ab = "unset"
    /\ cmp_ba = "unset"
    /\ NoExport
    /\ NoMetadataCall
    /\ NoRerun

Init == InitPass(Universe, ExcludedColumns)

(***************************************************************************)
(* group_and_summarize_data, lines 327-336: one iteration of the inner     *)
(* loop, on the pair (data_dicts[i], data_dicts[j]).                       *)
(***************************************************************************)
\* line 332 without the test of line 330
pair_key_no_schema_test(dd, p, q, E) == compare_data_point(dd[p], dd[q], E)

\* line 330 and 332: the differing key of the pair, "skip" for unequal key sets
pair_key(dd, p, q, E) ==
    IF DOMAIN dd[p] = DOMAIN dd[q]
    THEN compare_data_point(dd[p], dd[q], E)
    ELSE "skip"

ComparePair ==
    /\ pc = "loop"
    /\ i <= Len(data_dicts)
    /\ \E differing_key \in {pair_key(data_dicts, i, j, exclude_list)} :
       \E res \in {IF differing_key \notin {"skip", None, KeyError}
                   THEN add_points_to_groups(list_of_grouped_dicts, data_dicts, summaries,
                                             group_keys, i, j, differing_key, exclude_list)
                   ELSE [groups |-> list_of_grouped_dicts, data |-> data_dicts,
                         summaries |-> summaries, keys |-> group_keys,
                         error |-> IF differing_key = KeyError THEN KeyError ELSE "none",
                         extended |-> 0, created |-> FALSE]} :
          /\ list_of_grouped_dicts' = res.groups
          /\ data_dicts' = res.data
          /\ summaries' = res.summaries
          /\ group_keys' = res.keys
          /\ error' = res.error
          /\ pc' = IF res.error = "none" THEN "loop" ELSE "raised"
          /\ last' = [p |-> i, q |-> j, key |-> differing_key,
                      extended |-> res.extended, created |-> res.created]
    /\ prev_dicts' = data_dicts
    /\ prev_groups' = list_of_grouped_dicts
    /\ prev_summaries' = summaries
    /\ IF j < Len(data_dicts)
       THEN i' = i /\ j' = j + 1
       ELSE i' = i + 1 /\ j' = 1
    /\ UNCHANGED <<exclude_list, input_dicts, cmp_a, cmp_b, cmp_ab, cmp_ba,
                   exportVars, metaVars, rerunVars>>

\* line 338: return list_of_grouped_dicts
Return ==
    /\ pc = "loop"
    /\ i > Len(data_dicts)
    /\ pc' = "done"
    /\ UNCHANGED <<exclude_list, data_dicts, input_dicts, summaries,
                   list_of_grouped_dicts, group_keys, i, j, error, last,
                   prev_dicts, prev_groups, prev_summaries, cmp_a, cmp_b, cmp_ab, cmp_ba,
                   exportVars, metaVars, rerunVars>>

Next == ComparePair \/ Return

Spec == Init /\ [][Next]_vars

(***************************************************************************)
(* Two calls of group_and_summarize_data, one after the other, with the    *)
(* same analyzer: the second is given the list the first was given, and    *)
(* line 324 gives each call a registry of its own.                         *)
(***************************************************************************)
\* the registry as lists of dicts
GroupDicts ==
    [g \in 1..Len(list_of_grouped_dicts) |->
        Members(data_dicts, summaries, list_of_grouped_dicts[g])]

\* the registry of a call, had it been kept from the call before
kept_registry(old) == old

\* line 324: list_of_grouped_dicts = []
new_registry(old) == <<>>

RerunUniverse ==
    {Rec(y, "A", YearValue[y]) : y \in Years}
    \cup {Rec("2020", "B", <<10, 1>>), Rec("2021", "B", NoneVal), Rec(Sentinel, "A", <<10, 1>>)}

InitRerun == InitPass(RerunUniverse, ExcludedColumns)

Rerun ==
    /\ pc \in {"done", "raised"}
    /\ run = 1
    /\ run' = 2
    /\ first_result' = [groups |-> GroupDicts, error |-> error]
    /\ data_dicts' = input_dicts
    /\ list_of_grouped_dicts' = new_registry(list_of_grouped_dicts)
    /\ summaries' = new_registry(summaries)
    /\ group_keys' = new_registry(group_keys)
    /\ i' = 1
    /\ j' = 1
    /\ pc' = "loop"
    /\ error' = "none"
    /\ last' = NoStep
    /\ prev_dicts' = input_dicts
    /\ prev_groups' = new_registry(prev_groups)
    /\ prev_summaries' = new_registry(prev_summaries)
    /\ UNCHANGED <<exclude_list, input_dicts, cmp_a, cmp_b, cmp_ab, cmp_ba,
                   exportVars, metaVars>>

NextRerun == ComparePair \/ Return \/ Rerun

SpecRerun == InitRerun /\ [][NextRerun]_vars

(***************************************************************************)
(* Grouping passes over records of several schemas, under several          *)
(* exclusion lists.                                                        *)
(***************************************************************************)
NoGeo(y, v) == [Year |-> y, Data_Value |-> v]

SchemaUniverse ==
    {Rec("2020", "A", <<10, 1>>), Rec("2021", "A", <<10, 1>>),
     NoGeo("2020", <<10, 1>>), NoGeo("2021", <<10, 1>>), NoGeo("2021", <<20, 1>>),
     NoGeo("2021", <<30, 1>>)}

ExcludeLists == {ExcludedColumns, ExcludedColumns \cup {"Geo"}, {}}

InitSchema ==
    \E E \in ExcludeLists : InitPass(SchemaUniverse, E)

SpecSchema == InitSchema /\ [][Next]_vars

(***************************************************************************)
(* Grouping passes over records some of which hold the string              *)
(* 'Mean (Average)' as the value of a dimension: a dict value is any       *)
(* string, and get_summary_dict (line 379) looks for that string among     *)
(* the values of every member.                                             *)
(***************************************************************************)
SentinelUniverse ==
    {Rec(y, g, YearValue[y]) : y \in Years, g \in {"A", Sentinel}}
    \cup {Rec(Sentinel, "A", <<10, 1>>)}

InitSentinel == InitPass(SentinelUniverse, ExcludedColumns)

SpecSentinel == InitSentinel /\ [][Next]_vars

(***************************************************************************)
(* Grouping passes over records some of which have no value: the API       *)
(* gives 'value': null and process_value stores it (lines 268-269);        *)
(* with scalarFactorCode 0 no record has a 'Scaled Value' (line 274).      *)
(***************************************************************************)
NullUniverse ==
    {Rec(y, "A", NoneVal) : y \in Years}
    \cup {Rec("2020", "A", <<10, 1>>), Rec("2021", "A", <<20, 1>>), Rec("2020", "B", NoneVal)}

InitNull == InitPass(NullUniverse, ExcludedColumns)

SpecNull == InitNull /\ [][Next]_vars

(***************************************************************************)
(* StatsCan_Manager.prep_data_for_export                                   *)
(* (scripts/statscan_data_manager.py, lines 41-94) on the registry a       *)
(* grouping pass returned; data_group.group is the list of dicts of a      *)
(* group.  The scan keeps the running intersection of the key sets, the    *)
(* set of values of each key, and one sheet and one title per ProductId.   *)
(***************************************************************************)
\* the dicts of the groups in the order of the two loops of lines 54-56
RECURSIVE Flatten(_)
Flatten(gs) == IF gs = <<>> THEN <<>> ELSE Head(gs) \o Flatten(Tail(gs))

\* lines 61-65, had line 65 been inside the test of line 63
add_values_first_only(table, keys, data_point) ==
    [key \in DOMAIN table \cup keys |->
        IF key \in DOMAIN table THEN table[key] ELSE {data_point[key]}]

\* lines 61-65: the value of data_point at every shared key joins the key's set
add_values(table, keys, data_point) ==
    [key \in DOMAIN table \cup keys |->
        (IF key \in DOMAIN table THEN table[key] ELSE {})
        \cup (IF key \in keys THEN {data_point[key]} ELSE {})]

\* lines 70-72 and 82, without the test of line 80: every dict scanned is a row
add_to_sheet_untested(sheets, data_point) ==
    LET productId == data_point["ProductId"]
        sheet == IF productId \in DOMAIN sheets THEN sheets[productId] ELSE <<>>
    IN [id \in DOMAIN sheets \cup {productId} |->
           IF id = productId THEN Append(sheet, data_point) ELSE sheets[id]]

\* lines 70-72 and 80-82: the sheet of the ProductId, with data_point if new
add_to_sheet(sheets, data_point) ==
    LET productId == data_point["ProductId"]
        sheet == IF productId \in DOMAIN sheets THEN sheets[productId] ELSE <<>>
        added == IF \E n \in 1..Len(sheet) : sheet[n] = data_point
                 THEN sheet ELSE Append(sheet, data_point)
    IN [id \in DOMAIN sheets \cup {productId} |->
           IF id = productId THEN added ELSE sheets[id]]

\* lines 75-77: the title of the first dict seen with the ProductId
add_title(titles, data_point) ==
    IF data_point["ProductId"] \in DOMAIN titles THEN titles
    ELSE [id \in DOMAIN titles \cup {data_point["ProductId"]} |->
             IF id \in DOMAIN titles THEN titles[id] ELSE data_point["Title"]]

\* lines 54-82 from the n-th dict scanned on
RECURSIVE export_scan(_, _, _, _, _, _)
export_scan(ds, n, keys, table, sheets, titles) ==
    IF n > Len(ds)
    THEN [keys |-> keys, table |-> table, sheets |-> sheets, titles |-> titles,
          error |-> "none"]
    ELSE LET data_point == ds[n]
             now_shared == keys \cap DOMAIN data_point
             now_table == add_values(table, now_shared, data_point)
         IN IF \/ "ProductId" \notin DOMAIN data_point
               \/ /\ data_point["ProductId"] \notin DOMAIN titles
                  /\ "Title" \notin DOMAIN data_point
            THEN [keys |-> now_shared, table |-> now_table, sheets |-> sheets,
                  titles |-> titles, error |-> KeyError]
            ELSE export_scan(ds, n + 1, now_shared, now_table,
                             add_to_sheet(sheets, data_point),
                             add_title(titles, data_point))

\* lines 44-82; line 51 raises IndexError on an empty list of groups
prep_data_for_export(groups) ==
    IF groups = <<>>
    THEN [keys |-> {}, table |-> <<>>, sheets |-> <<>>, titles |-> <<>>,
          error |-> IndexError]
    ELSE export_scan(Flatten(groups), 1, DOMAIN groups[1][1], <<>>, <<>>, <<>>)

\* the ProductIds of the dicts from the n-th on that are not in seen, in the
\* order of their first dict: the order of the keys of product_id_to_sheet
RECURSIVE first_seen(_, _, _)
first_seen(ds, n, seen) ==
    IF n > Len(ds) THEN <<>>
    ELSE IF ds[n]["ProductId"] \in seen THEN first_seen(ds, n + 1, seen)
    ELSE <<ds[n]["ProductId"]>> \o first_seen(ds, n + 1, seen \cup {ds[n]["ProductId"]})

\* line 85: the slice [:30] of the sheet name
SheetNameLen == 30

\* line 85: f'{product_id}-{title}'[:30]
sheet_name(product_id, title) ==
    LET name == product_id \o "-" \o title
    IN IF Len(name) > SheetNameLen THEN SubSeq(name, 1, SheetNameLen) ELSE name

\* get_data.py, line 97: f'Product_{product_id}'
director_sheet_name(product_id) == "Product_" \o product_id

\* the key of the sheet of a ProductId in the dfs of either class
name_in(class, product_id, titles) ==
    IF class = "Director" THEN director_sheet_name(product_id)
    ELSE sheet_name(product_id, titles[product_id])

\* lines 85 and 97: the dict comprehension over product_id_to_sheet.items()
\* from the n-th ProductId on; a name met again replaces the sheet it had
RECURSIVE frames(_, _, _, _, _, _)
frames(order, sheets, titles, class, n, made) ==
    IF n > Len(order) THEN made
    ELSE LET name == name_in(class, order[n], titles)
         IN frames(order, sheets, titles, class, n + 1,
                   [x \in DOMAIN made \cup {name} |->
                       IF x = name THEN sheets[order[n]] ELSE made[x]])

Export ==
    /\ pc = "done"
    /\ \E res \in {prep_data_for_export(GroupDicts)} :
          /\ shared_keys' = res.keys
          /\ shared_keys_values' = res.table
          /\ product_id_to_sheet' = res.sheets
          /\ product_id_to_title' = res.titles
          /\ dfs' = IF res.error = "none"
                    THEN frames(first_seen(Flatten(GroupDicts), 1, {}), res.sheets,
                                res.titles, "StatsCan_Manager", 1, <<>>)
                    ELSE <<>>
          /\ error' = res.error
          /\ pc' = IF res.error = "none" THEN "exported" ELSE "export_raised"
    /\ UNCHANGED <<exclude_list, data_dicts, input_dicts, summaries,
                   list_of_grouped_dicts, group_keys, i, j, last,
                   prev_dicts, prev_groups, prev_summaries, cmp_a, cmp_b, cmp_ab, cmp_ba,
                   metaVars, rerunVars>>

(***************************************************************************)
(* Director.prep_data_for_export (get_data.py, lines 76-98) on the same    *)
(* registry: the sheets only, named after the ProductId.                   *)
(***************************************************************************)
\* lines 83-94 from the n-th dict scanned on
RECURSIVE director_scan(_, _, _)
director_scan(ds, n, sheets) ==
    IF n > Len(ds) THEN [sheets |-> sheets, error |-> "none"]
    ELSE IF "ProductId" \notin DOMAIN ds[n] THEN [sheets |-> sheets, error |-> KeyError]
    ELSE director_scan(ds, n + 1, add_to_sheet(sheets, ds[n]))

DirectorExport ==
    /\ pc = "done"
    /\ \E res \in {director_scan(Flatten(GroupDicts), 1, <<>>)} :
          /\ product_id_to_sheet' = res.sheets
          /\ dfs' = IF res.error = "none"
                    THEN frames(first_seen(Flatten(GroupDicts), 1, {}), res.sheets,
                                <<>>, "Director", 1, <<>>)
                    ELSE <<>>
          /\ error' = res.error
          /\ pc' = IF res.error = "none" THEN "director_exported" ELSE "export_raised"
    /\ UNCHANGED <<exclude_list, data_dicts, input_dicts, summaries,
                   list_of_grouped_dicts, group_keys, i, j, last,
                   prev_dicts, prev_groups, prev_summaries, cmp_a, cmp_b, cmp_ab, cmp_ba,
                   shared_keys, shared_keys_values, product_id_to_title,
                   metaVars, rerunVars>>

\* cubeTitleEn of the products: two of them have the same title
TitleOf(id) == IF id = "P2" THEN "T2" ELSE "Population estimates, quarterly"

\* data_to_dict (get_data.py, lines 251-254): every dict has ProductId and Title
Product(id, d) ==
    [key \in {"ProductId", "Title"} \cup DOMAIN d |->
        IF key = "ProductId" THEN id
        ELSE IF key = "Title" THEN TitleOf(id)
        ELSE d[key]]

\* one product with the dimension Geo, one without it, and a record of a
\* third product that differs from one of the first in the ProductId only
ExportUniverse ==
    {Product("P1", Rec("2020", "A", <<10, 1>>)), Product("P1", Rec("2021", "A", <<20, 1>>)),
     Product("P1", Rec("2020", "B", <<10, 1>>)), Product("P1", Rec("2022", "B", <<30, 1>>)),
     Product("P2", NoGeo("2020", <<10, 1>>)), Product("P2", NoGeo("2021", <<20, 1>>)),
     Product("P3", Rec("2020", "A", <<10, 1>>))}

InitExport == InitPass(ExportUniverse, ExcludedColumns)

NextExport == ComparePair \/ Return \/ Export \/ DirectorExport

SpecExport == InitExport /\ [][NextExport]_vars

(***************************************************************************)
(* Data_Assembler.get_metadata (get_data.py, lines 213-224, and the same   *)
(* code in scripts/statscan_data_manager.py, lines 207-218) called with    *)
(* one productId after another.  The caller passes the number found in     *)
(* the vector (line 185); the metadata of the API holds the productId as   *)
(* text, and line 216 compares the two through int().  fetch_metadata      *)
(* (lines 135-146) returns the cube's metadata, or None when the call      *)
(* failed.                                                                 *)
(***************************************************************************)
\* the productId of cube n as the metadata writes it
CubeIds == <<"35100003", "35100004", "13100001">>

\* Python's None as an element of the cache
PyNone == [none |-> TRUE]

\* int() of a productId text: the number of the cube
int(text) == CHOOSE n \in 1..Len(CubeIds) : CubeIds[n] = text

\* API_Manager.fetch_metadata, lines 139-146
fetch_metadata(productId, ok) ==
    IF ok THEN [productId |-> CubeIds[productId], cubeTitleEn |-> "T"] ELSE PyNone

\* line 216 without the cache: nothing is ever found
cache_lookup_none(cache, productId, n) == 0

\* line 216 from the n-th element of the cache on: the place of the first
\* element with the productId, 0 when there is none, -1 when the scan meets
\* None before it (subscripting None raises TypeError)
RECURSIVE cache_lookup(_, _, _)
cache_lookup(cache, productId, n) ==
    IF n > Len(cache) THEN 0
    ELSE IF cache[n] = PyNone THEN -1
    ELSE IF int(cache[n]["productId"]) = productId THEN n
    ELSE cache_lookup(cache, productId, n + 1)

GetMetadata ==
    /\ pc = "meta"
    /\ Len(requested) < MaxCalls
    /\ \E productId \in 1..Len(CubeIds), ok \in BOOLEAN :
       \E at \in {cache_lookup(metadata_cache, productId, 1)} :
          /\ requested' = Append(requested, productId)
          /\ IF at = -1
             THEN /\ error' = TypeError
                  /\ pc' = "meta_raised"
                  /\ UNCHANGED <<metadata_cache, api_calls, returned>>
             ELSE IF at > 0
             THEN /\ returned' = metadata_cache[at]
                  /\ UNCHANGED <<metadata_cache, api_calls, error, pc>>
             ELSE /\ api_calls' = Append(api_calls, productId)
                  /\ metadata_cache' = Append(metadata_cache, fetch_metadata(productId, ok))
                  /\ returned' = fetch_metadata(productId, ok)
                  /\ UNCHANGED <<error, pc>>
    /\ UNCHANGED <<exclude_list, data_dicts, input_dicts, summaries,
                   list_of_grouped_dicts, group_keys, i, j, last,
                   prev_dicts, prev_groups, prev_summaries, cmp_a, cmp_b, cmp_ab, cmp_ba,
                   exportVars, rerunVars>>

InitMeta ==
    /\ pc = "meta"
    /\ NoMetadataCall
    /\ exclude_list = ExcludedColumns
    /\ data_dicts = <<>>
    /\ input_dicts = <<>>
    /\ summaries = <<>>
    /\ list_of_grouped_dicts = <<>>
    /\ group_keys = <<>>
    /\ i = 1
    /\ j = 1
    /\ error = "none"
    /\ last = NoStep
    /\ prev_dicts = <<>>
    /\ prev_groups = <<>>
    /\ prev_summaries = <<>>
    /\ cmp_a = <<>>
    /\ cmp_b = <<>>
    /\ cmp_ab = "unset"
    /\ cmp_ba = "unset"
    /\ NoExport
    /\ NoRerun

NextMeta == GetMetadata

SpecMeta == InitMeta /\ [][NextMeta]_vars

(***************************************************************************)
(* compare_data_point on its own: two dicts and an exclusion list, the     *)
(* comparison made in both argument orders.  A summary dict, with the      *)
(* sentinel at one key, is an argument too (line 352).                     *)
(***************************************************************************)
CmpAttrs == {"Year", "Geo", "Data_Value"}

CmpUniverse ==
    {Rec(y, g, v) : y \in {"2020", "2021", Sentinel}, g \in {"A", "B"},
                    v \in {<<10, 1>>, <<20, 1>>}}

InitCmp ==
    /\ exclude_list \in SUBSET CmpAttrs
    /\ cmp_a \in CmpUniverse
    /\ cmp_b \in CmpUniverse
    /\ cmp_ab = "unset"
    /\ cmp_ba = "unset"
    /\ pc = "cmp"
    /\ data_dicts = <<>>
    /\ input_dicts = <<>>
    /\ summaries = <<>>
    /\ list_of_grouped_dicts = <<>>
    /\ group_keys = <<>>
    /\ i = 1
    /\ j = 1
    /\ error = "none"
    /\ last = NoStep
    /\ prev_dicts = <<>>
    /\ prev_groups = <<>>
    /\ prev_summaries = <<>>
    /\ NoExport
    /\ NoMetadataCall
    /\ NoRerun

Compare ==
    /\ pc = "cmp"
    /\ cmp_ab' = compare_data_point(cmp_a, cmp_b, exclude_list)
    /\ cmp_ba' = compare_data_point(cmp_b, cmp_a, exclude_list)
    /\ pc' = "cmp_done"
    /\ UNCHANGED <<exclude_list, data_dicts, input_dicts, summaries,
                   list_of_grouped_dicts, group_keys, i, j, error, last,
                   prev_dicts, prev_groups, prev_summaries, cmp_a, cmp_b,
                   exportVars, metaVars, rerunVars>>

NextCmp == Compare

SpecCmp == InitCmp /\ [][NextCmp]_vars

(***************************************************************************)
(* Vocabulary of the properties.                                           *)
(***************************************************************************)
\* the last loop iteration called add_points_to_groups
Stepped == last.key \notin {"none", "skip", None, KeyError}

PrevGroupIds == 1..Len(prev_groups)

\* membership ("in") of input record r in group g, before and after the iteration
PrevHas(g, r) == InGroup(prev_dicts, prev_summaries, prev_dicts[r], prev_groups[g])

NowHas(g, r) == InGroup(data_dicts, summaries, data_dicts[r], list_of_grouped_dicts[g])

\* the Data_Value of the members of group g that are input records
InputValues(g) ==
    LET refs == SelectSeq(list_of_grouped_dicts[g], LAMBDA r : r > 0)
    IN [m \in 1..Len(refs) |-> data_dicts[refs[m]]["Data_Value"]]

\* the non-excluded keys at which two dicts of one key set differ
DiffKeys(a, b, E) == {key \in DOMAIN b \ E : a[key] # b[key]}

ThreeYears ==
    <<Rec("2020", "A", <<10, 1>>), Rec("2021", "A", <<20, 1>>), Rec("2022", "A", <<30, 1>>)>>

(***************************************************************************)
(* C1: in every state of a grouping pass, the summary of every group holds *)
(* in Data_Value the arithmetic mean of the Data_Value of the group's      *)
(* non-summary members only.                                               *)
(***************************************************************************)
C1_SummaryIsMeanOfInputMembers ==
    pc \in {"loop", "done"} =>
        \A g \in 1..Len(list_of_grouped_dicts) :
            summaries[g]["Data_Value"] = mean(InputValues(g))

(***************************************************************************)
(* C2: three records that differ only in Year (2020, 2021, 2022), with     *)
(* values 10, 20, 30, give exactly one group of four members whose summary *)
(* has the sentinel at Year and the value 20.                              *)
(***************************************************************************)
C2_ThreeYearsOneGroupMeanTwenty ==
    pc = "done" /\ input_dicts = ThreeYears =>
        /\ Len(list_of_grouped_dicts) = 1
        /\ Len(list_of_grouped_dicts[1]) = 4
        /\ summaries[1]["Year"] = Sentinel
        /\ summaries[1]["Data_Value"] = <<20, 1>>

(***************************************************************************)
(* C3: a pair (p, q) with differing key k creates a group only if neither  *)
(* p nor q is in an existing group with key k, and the new group is p, q   *)
(* and its summary.                                                        *)
(***************************************************************************)
C3_CreateOnlyWhenNeitherIsGrouped ==
    Stepped /\ last.created =>
        /\ \A g \in PrevGroupIds :
              group_keys[g] = last.key => ~PrevHas(g, last.p) /\ ~PrevHas(g, last.q)
        /\ list_of_grouped_dicts[Len(list_of_grouped_dicts)]
              = <<last.p, last.q, -Len(list_of_grouped_dicts)>>

(***************************************************************************)
(* C4: after a pair (p, q) with differing key k is processed, every group  *)
(* that had key k and contained p or q contains both p and q.              *)
(***************************************************************************)
C4_EveryMatchingGroupGetsBoth ==
    Stepped /\ error = "none" =>
        \A g \in PrevGroupIds :
            group_keys[g] = last.key /\ (PrevHas(g, last.p) \/ PrevHas(g, last.q))
                => NowHas(g, last.p) /\ NowHas(g, last.q)

(***************************************************************************)
(* C5: when p is in one group and q in another, both with key k, the pair  *)
(* (p, q) extends both groups, each with its missing record, and the two   *)
(* groups stay separate entries of the registry.                           *)
(***************************************************************************)
SplitPair(g, h) ==
    /\ g # h
    /\ group_keys[g] = last.key /\ group_keys[h] = last.key
    /\ PrevHas(g, last.p) /\ ~PrevHas(g, last.q)
    /\ PrevHas(h, last.q) /\ ~PrevHas(h, last.p)

C6_SingleDifferenceIsReturned ==
    pc = "cmp_done" /\ DOMAIN cmp_a = DOMAIN cmp_b
                   /\ Cardinality(DiffKeys(cmp_a, cmp_b, exclude_list)) = 1
        => cmp_ab \in DiffKeys(cmp_a, cmp_b, exclude_list)

\* one counted difference, and a difference at an excluded key besides
C6_Witness ==
    /\ pc = "cmp_done"
    /\ Cardinality(DiffKeys(cmp_a, cmp_b, exclude_list)) = 1
    /\ Cardinality(DiffKeys(cmp_a, cmp_b, {})) > 1
    /\ cmp_ab \in DiffKeys(cmp_a, cmp_b, exclude_list)

(***************************************************************************)
(* C7: for dicts a, b of one key set the comparison gives the same result  *)
(* in both argument orders.                                                *)
(***************************************************************************)
C7_ComparatorSymmetric ==
    pc = "cmp_done" /\ DOMAIN cmp_a = DOMAIN cmp_b => cmp_ab = cmp_ba

\* a differing key found in both orders, one argument holding the sentinel
C7_Witness ==
    /\ pc = "cmp_done"
    /\ cmp_ab = cmp_ba
    /\ cmp_ab \in CmpAttrs
    /\ HasSentinel(cmp_b) /\ ~HasSentinel(cmp_a)

(***************************************************************************)
(* C8: for dicts a, b of one key set the comparison returns None when they *)
(* are equal, when they differ at excluded keys only, and when they differ *)
(* at two or more keys that are not excluded.                              *)
(***************************************************************************)
C8_NoneUnlessSingleDifference ==
    pc = "cmp_done" /\ DOMAIN cmp_a = DOMAIN cmp_b
                   /\ Cardinality(DiffKeys(cmp_a, cmp_b, exclude_list)) # 1
        => cmp_ab = None

\* two counted differences
C8_Witness ==
    /\ pc = "cmp_done"
    /\ Cardinality(DiffKeys(cmp_a, cmp_b, exclude_list)) >= 2
    /\ cmp_ab = None

(***************************************************************************)
(* C9: a pair of records with different key sets gives no differing key    *)
(* and no error under any exclusion list, and creates or extends no group; *)
(* inside add_points_to_groups every member of a group that is compared    *)
(* has the key set of the record it is compared with.                      *)
(***************************************************************************)
SchemaMismatch == DOMAIN prev_dicts[last.p] # DOMAIN prev_dicts[last.q]

C9_SchemaMismatchIsIncomparable ==
    last.p > 0 =>
        /\ SchemaMismatch =>
              /\ last.key \notin DOMAIN prev_dicts[last.p] \cup DOMAIN prev_dicts[last.q]
              /\ error = "none"
              /\ list_of_grouped_dicts = prev_groups
              /\ summaries = prev_summaries
        /\ Stepped =>
              \A g \in PrevGroupIds :
                  any_in_group(prev_dicts, prev_summaries, prev_groups[g], last.p, last.q)
                      => \A m \in 1..Len(prev_groups[g]) :
                             DOMAIN Deref(prev_dicts, prev_summaries, prev_groups[g][m])
                                 = DOMAIN prev_dicts[last.q]

\* a mismatched pair that compare_data_point alone would not call incomparable
C9_Witness ==
    /\ last.p > 0
    /\ SchemaMismatch
    /\ compare_data_point(prev_dicts[last.p], prev_dicts[last.q], exclude_list) # None
    /\ Len(prev_groups) > 0
    /\ list_of_grouped_dicts = prev_groups

(***************************************************************************)
(* C10: processing a pair whose two records are both already in group g    *)
(* leaves the size of g and the summary of g unchanged.                    *)
(***************************************************************************)
C10_ReAddingLeavesGroupUnchanged ==
    Stepped =>
        \A g \in PrevGroupIds :
            PrevHas(g, last.p) /\ PrevHas(g, last.q) =>
                /\ Len(list_of_grouped_dicts[g]) = Len(prev_groups[g])
                /\ summaries[g] = prev_summaries[g]

\* both records in a group that has been extended since its creation
C10_Witness ==
    /\ Stepped
    /\ \E g \in PrevGroupIds :
          /\ PrevHas(g, last.p) /\ PrevHas(g, last.q)
          /\ Len(prev_groups[g]) >= 4
          /\ list_of_grouped_dicts[g] = prev_groups[g]
          /\ summaries[g] = prev_summaries[g]

(***************************************************************************)
(* C11: in every state of a grouping pass, no group has two members that   *)
(* carry the sentinel 'Mean (Average)', and no group has two members that  *)
(* are equal field for field.                                              *)
(***************************************************************************)
\* the positions of group g whose member carries the sentinel
SentinelPositions(g) ==
    {m \in 1..Len(list_of_grouped_dicts[g]) :
        HasSentinel(Deref(data_dicts, summaries, list_of_grouped_dicts[g][m]))}

C11_OneSummaryNoEqualMembers ==
    \A g \in 1..Len(list_of_grouped_dicts) :
        /\ Cardinality(SentinelPositions(g)) <= 1
        /\ \A m, n \in 1..Len(list_of_grouped_dicts[g]) :
              m # n => Deref(data_dicts, summaries, list_of_grouped_dicts[g][m])
                       # Deref(data_dicts, summaries, list_of_grouped_dicts[g][n])

(***************************************************************************)
(* C12: a null among the Data_Value of a group's members never makes the   *)
(* pass raise, and the summary of such a group has a null Data_Value.      *)
(***************************************************************************)
\* group g has an input record without a value
HasNullMember(g) == \E m \in 1..Len(InputValues(g)) : InputValues(g)[m] = NoneVal

\* every input record of group g is without a value
AllNullMembers(g) == \A m \in 1..Len(InputValues(g)) : InputValues(g)[m] = NoneVal

C12_NullNeverRaisesSummaryNull ==
    /\ pc # "raised"
    /\ \A g \in 1..Len(list_of_grouped_dicts) :
          HasNullMember(g) => summaries[g]["Data_Value"] = NoneVal

(***************************************************************************)
(* C13: a group all of whose members have a null Data_Value has a summary  *)
(* with a null Data_Value, when it is created and after every addition,    *)
(* and a pair of two such records never makes the pass raise.              *)
(***************************************************************************)
C13_AllNullGroupKeepsNullSummary ==
    /\ \A g \in 1..Len(list_of_grouped_dicts) :
          AllNullMembers(g) => summaries[g]["Data_Value"] = NoneVal
    /\ Stepped /\ prev_dicts[last.p]["Data_Value"] = NoneVal
               /\ prev_dicts[last.q]["Data_Value"] = NoneVal
          => error = "none"

\* an all-null group that was created earlier has just received a third record
C13_Witness ==
    /\ Stepped
    /\ last.extended > 0
    /\ AllNullMembers(last.extended)
    /\ Len(list_of_grouped_dicts[last.extended]) = 4
    /\ summaries[last.extended]["Data_Value"] = NoneVal
    /\ error = "none"

(***************************************************************************)
(* C14: every group of the registry holds a record carrying the sentinel,  *)
(* get_summary_dict never raises ValueError, and the record it returns for *)
(* a group is the summary created with the group, not an input record.     *)
(***************************************************************************)
\* the reference get_summary_dict returned in the last iteration (0: none found)
LookupRef ==
    LET group == list_of_grouped_dicts[last.extended]
        at == get_summary_dict(prev_dicts, prev_summaries, group)
    IN IF at = 0 THEN 0 ELSE group[at]

C14_LookupFindsSyntheticSummary ==
    /\ error # ValueError
    /\ \A g \in 1..Len(list_of_grouped_dicts) : SentinelPositions(g) # {}
    /\ Stepped /\ last.extended > 0 => LookupRef = -last.extended

(***************************************************************************)
(* C15: the keys of the table prep_data_for_export builds are the keys     *)
(* that every dict scanned has: a key missing from one dict has no entry,  *)
(* wherever that dict comes in the scan.                                   *)
(***************************************************************************)
\* the dicts prep_data_for_export scans
Scanned == {Flatten(GroupDicts)[n] : n \in 1..Len(Flatten(GroupDicts))}

\* the keys every scanned dict has
CommonKeys == {key \in UNION {DOMAIN d : d \in Scanned} : \A d \in Scanned : key \in DOMAIN d}

C15_TableKeysAreCommonKeys ==
    pc = "exported" => DOMAIN shared_keys_values = CommonKeys

InputRecords == {input_dicts[n] : n \in 1..Len(input_dicts)}

C17_TableOverInputRecords ==
    /\ pc = "export_raised" => error # IndexError
    /\ pc = "exported" =>
          \A key \in DOMAIN shared_keys_values :
              /\ \A d \in InputRecords :
                    key \in DOMAIN d => d[key] \in shared_keys_values[key]
              /\ \A v \in shared_keys_values[key] :
                    \E d \in InputRecords : key \in DOMAIN d /\ d[key] = v

InputMembers(g) ==
    LET refs == SelectSeq(list_of_grouped_dicts[g], LAMBDA r : r > 0)
    IN [m \in 1..Len(refs) |-> data_dicts[refs[m]]]

C19_OneFixedDifferingKey ==
    /\ \A g \in 1..Len(list_of_grouped_dicts) :
          LET k == group_keys[g]
              ms == InputMembers(g)
          IN /\ \A m, n \in 1..Len(ms) :
                   m # n => DiffKeys(ms[m], ms[n], exclude_list) = {k}
             /\ summaries[g][k] = Sentinel
             /\ \A m \in 1..Len(ms) :
                   DiffKeys(ms[m], summaries[g], exclude_list) \subseteq {k}
    /\ Stepped =>
          \A g \in PrevGroupIds : prev_summaries[g][group_keys[g]] = Sentinel

\* a group with three input records, the last one added after the creation
C19_Witness ==
    /\ Stepped
    /\ last.extended > 0
    /\ Len(InputMembers(last.extended)) = 3
    /\ \A m \in 1..3 :
          InputMembers(last.extended)[m][group_keys[last.extended]] # Sentinel

(***************************************************************************)
(* C20: as long as every fetch of a run of get_metadata calls has          *)
(* succeeded, api.fetch_metadata has been called at most once for each     *)
(* productId, no call has raised, and the last call returned the metadata  *)
(* of the productId it was asked for.                                      *)
(***************************************************************************)
\* no fetch_metadata has returned None
AllFetchesSucceeded == \A n \in 1..Len(metadata_cache) : metadata_cache[n] # PyNone

C20_OneFetchPerProductId ==
    AllFetchesSucceeded =>
        /\ pc # "meta_raised"
        /\ \A m, n \in 1..Len(api_calls) : m # n => api_calls[m] # api_calls[n]
        /\ \A n \in 1..Len(requested) : \E m \in 1..Len(api_calls) : api_calls[m] = requested[n]
        /\ requested # <<>> =>
              /\ returned # PyNone
              /\ int(returned["productId"]) = requested[Len(requested)]

\* a productId asked for a second time after another one, served from the cache
C20_Witness ==
    /\ AllFetchesSucceeded
    /\ Len(requested) >= 3
    /\ \E n \in 1..(Len(requested) - 1) : requested[n] = requested[Len(requested)]
    /\ Len(api_calls) = 2
    /\ int(returned["productId"]) = requested[Len(requested)]

(***************************************************************************)
(* C21: after prep_data_for_export, in either class, every dict of every   *)
(* group is a row of the sheet of its ProductId, every row of a sheet has  *)
(* the ProductId of the sheet, no sheet has two equal rows, and every      *)
(* sheet is exported under the name of its ProductId.                      *)
(***************************************************************************)
\* the name under which the sheet of a ProductId is exported
ExportedName(id) ==
    IF pc = "exported" THEN sheet_name(id, product_id_to_title[id])
    ELSE director_sheet_name(id)

Rows(sheet) == {sheet[n] : n \in 1..Len(sheet)}

C21_SheetsHoldEveryMemberOnce ==
    pc \in {"exported", "director_exported"} =>
        /\ \A d \in Scanned :
              /\ d["ProductId"] \in DOMAIN product_id_to_sheet
              /\ d \in Rows(product_id_to_sheet[d["ProductId"]])
        /\ \A id \in DOMAIN product_id_to_sheet :
              /\ \A row \in Rows(product_id_to_sheet[id]) : row["ProductId"] = id
              /\ \A m, n \in 1..Len(product_id_to_sheet[id]) :
                    m # n => product_id_to_sheet[id][m] # product_id_to_sheet[id][n]
              /\ ExportedName(id) \in DOMAIN dfs
              /\ dfs[ExportedName(id)] = product_id_to_sheet[id]

\* two sheets, and a record that is in two groups and in its sheet once
C21_Witness ==
    /\ pc \in {"exported", "director_exported"}
    /\ Cardinality(DOMAIN product_id_to_sheet) >= 2
    /\ \E g, h \in 1..Len(list_of_grouped_dicts) :
          /\ g # h
          /\ \E d \in Rows(GroupDicts[g]) \cap Rows(GroupDicts[h]) :
                Cardinality({n \in 1..Len(product_id_to_sheet[d["ProductId"]]) :
                                product_id_to_sheet[d["ProductId"]][n] = d}) = 1

(***************************************************************************)
(* C22: a grouping pass leaves every input record as it was: in every      *)
(* state of the pass the list holds the attributes and values it was       *)
(* given, also when a record holds the string 'Mean (Average)'.            *)
(***************************************************************************)
C22_InputRecordsUnchanged == data_dicts = input_dicts

(***************************************************************************)
(* C23: a fetch that returned None does not spoil the cache: no later      *)
(* call of get_metadata raises, and a call that returns metadata returns   *)
(* the metadata of the productId it was asked for.                         *)
(***************************************************************************)
C23_FailedFetchLeavesCacheUsable ==
    /\ pc # "meta_raised"
    /\ requested # <<>> /\ returned # PyNone =>
          int(returned["productId"]) = requested[Len(requested)]

====
